---- MODULE Spec2Model ----
(***************************************************************************)
(* A model of the books.toscrape.com crawler (scrape.py): the retried      *)
(* fetch, the listing and detail parsers, the pagination loop of           *)
(* scrape_all, the checkpoint written by temp-write + rename, the tabular  *)
(* export, and the KeyboardInterrupt handler of the script's entry point;  *)
(* and of the cleaning stage (transform_and_load.py) that reads the raw    *)
(* dataset: parse_availability and the rows clean_data keeps.              *)
(***************************************************************************)
EXTENDS Integers, Sequences, FiniteSets, TLC

VARIABLES
    pc,             \* position of the process in scrape.py
    page,           \* scrape_all: page
    all_books,      \* scrape_all: all_books (the Accumulator)
    articles,       \* scrape_all: the entries of the current page not yet processed
    page_final_url, \* scrape_all: page_final_url
    item,           \* scrape_all: item (the listing record being enriched)
    ret,            \* where the running safe_write_json_partial returns to
    RAW_JSON,       \* the file data/raw_books.json
    TMP_JSON,       \* the file data/raw_books.tmp
    RAW_CSV,        \* the file data/raw_books.csv
    url,            \* get_soup_and_url: url
    caller,         \* who called get_soup_and_url: "list" or "detail"
    attempt,        \* get_soup_and_url: attempt
    delay,          \* get_soup_and_url: delay
    gets,           \* number of requests.get calls made by the running call
    timed,          \* whether the run's sleeps are being recorded
    sleeps,         \* the durations of the time.sleep calls of the running call, when timed
    result,         \* what get_soup_and_url returned
    startJson,      \* history: RAW_JSON when the process started
    jsonBefore,     \* history: RAW_JSON when the latest save began
    saveArg,        \* history: the list the latest save was called with
    listed,         \* history: the listing pages requested so far, in order
    served,         \* history: the item entries the site has served so far
    landed,         \* history: resp.url of the latest listing page answered with 200
    cut,            \* history: where an interrupt or a crash ended the run
    avail_text,     \* parse_availability: avail_text
    avail_result,   \* what parse_availability returned
    df_clean        \* main of transform_and_load.py: df_clean

fetchVars == <<url, caller, attempt, delay, gets, timed, sleeps, result>>
fileVars  == <<RAW_JSON, TMP_JSON, RAW_CSV>>
crawlVars == <<page, all_books, articles, page_final_url, item, ret>>
histVars  == <<startJson, jsonBefore, saveArg, listed, served, landed, cut>>
cleanVars == <<avail_text, avail_result, df_clean>>
vars == <<pc, crawlVars, fileVars, fetchVars, histVars, cleanVars>>

-----------------------------------------------------------------------------
(* Bounds of the model *)

\* scrape_all's max_pages argument (1000 by default), scaled down
MaxPages == 2
\* most item entries on one listing page
MaxArticles == 2
\* longest short checkpoint found at startup
MaxResume == 2
\* most item entries the site serves during one run
MaxItems == 3
\* jitter is drawn from {0, 1/JitterSteps, ..., (JitterSteps-1)/JitterSteps}
JitterSteps == 4
\* longest availability text given to parse_availability
MaxText == 3
\* most records in the raw dataset given to clean_data
MaxRaw == 3
\* most rows in the product information table of a detail page
MaxRows == 2

(* Program constants *)
max_retries == 4
backoff_factor == 1
CheckpointEvery == 20

-----------------------------------------------------------------------------
(* Values *)

None == "None"
NoUrl == <<>>
EmptyDict == <<>>

\* A value of the cleaning stage that may be None: <<>> is None, <<v>> is v.
NoValue == <<>>
Some(v) == <<v>>

\* A DataFrame is the sequence of its rows; NoFrame stands where none was made.
NoFrame == [ok |-> FALSE, rows |-> <<>>]
Frame(rows) == [ok |-> TRUE, rows |-> rows]

Min(a, b) == IF a < b THEN a ELSE b

Front(s) == SubSeq(s, 1, Len(s) - 1)

IsPrefix(s, t) == Len(s) <= Len(t) /\ SubSeq(t, 1, Len(s)) = s

\* A URL is the sequence of its path segments, the last one naming the document.
BASE == <<"">>

\* A relative reference: `up` leading "../" segments, then `segs`.
Ref(up, segs) == [up |-> up, segs |-> segs]
EmptyRef == Ref(0, <<>>)

\* urllib.parse.urljoin on path-only references: an empty reference is the base
\* itself; otherwise the base's document is dropped, each "../" drops one
\* directory (never above the root), and the reference's segments are appended.
urljoin(base, ref) ==
    IF ref = EmptyRef THEN base
    ELSE LET dir == Front(base)
             kept == SubSeq(dir, 1, Len(dir) - Min(ref.up, Len(dir)))
         IN  kept \o ref.segs

PageFile == <<"page-1.html", "page-2.html", "page-3.html", "page-4.html", "page-5.html">>

\* urljoin(BASE, f"catalogue/page-{page}.html")
PageUrl(n) == urljoin(BASE, Ref(0, <<"catalogue", PageFile[n]>>))

-----------------------------------------------------------------------------
(* Dictionaries: a dict is a function from its keys to their values *)

\* dict.update: the keys of d2 are added to d1, d2's value winning
Update(d1, d2) ==
    [k \in (DOMAIN d1) \cup (DOMAIN d2) |-> IF k \in DOMAIN d2 THEN d2[k] ELSE d1[k]]

-----------------------------------------------------------------------------
(* Pages: what BeautifulSoup finds in a response body *)

\* An item entry (article.product_pod). h3 says whether it holds <h3><a>; an
\* absent optional tag or attribute is the empty text or the empty reference,
\* the default the parser substitutes for it.
Pod(h3, title, href, price, availability, rating, img) ==
    [h3 |-> h3, title |-> title, href |-> href, price |-> price,
     availability |-> availability, rating |-> rating, img |-> img]

GoodPod == Pod(TRUE, "A Light in the Attic", Ref(0, <<"a-light_1000", "index.html">>),
               "51.77", "In stock", "Three", Ref(1, <<"media", "1.jpg">>))
BrokenPod == Pod(FALSE, "", EmptyRef, "", "", "", EmptyRef)

\* the item entries the site may serve
Pods == {GoodPod, BrokenPod}

\* A row of the product information table: th and td are the cells' texts, or
\* Missing when the row lacks the cell.
Missing == "Missing"
Row(th, td) == [th |-> th, td |-> td]

\* A parsed page: the item entries, the texts of "ul.breadcrumb li a", the text
\* of the paragraph after #product_description (Missing without one), and the
\* rows of table.table-striped (has_table says whether there is one).
Soup(pods, crumbs, desc, has_table, rows) ==
    [pods |-> pods, crumbs |-> crumbs, desc |-> desc, has_table |-> has_table, rows |-> rows]

NoSoup == Soup(<<>>, <<>>, Missing, FALSE, <<>>)

RECURSIVE SeqsUpTo(_, _)
SeqsUpTo(S, n) ==
    IF n = 0 THEN {<<>>}
    ELSE LET shorter == SeqsUpTo(S, n - 1)
         IN  shorter \cup {Append(s, x) : s \in {t \in shorter : Len(t) = n - 1}, x \in S}

\* the listing pages the site may serve
ListingPages == {Soup(pods, <<>>, Missing, FALSE, <<>>) : pods \in SeqsUpTo(Pods, MaxArticles)}

FullPage == Soup(<<>>, <<"Home", "Books", "Poetry">>, "It's hard to imagine",
                 TRUE, <<Row("UPC", "a897fe39"), Row("Product Type", "Books")>>)
NoThPage == Soup(<<>>, <<"Home", "Books", "Poetry">>, "It's hard to imagine",
                 TRUE, <<Row("UPC", "a897fe39"), Row(Missing, "Books")>>)

\* the detail pages the site may serve
DetailPages == {FullPage, NoThPage}

\* the final URLs a request for u may end at: u itself or, for a listing page,
\* where the site's redirect leads
Moved(u) == <<"en">> \o u
IsListingUrl(u) == \E n \in 1..Len(PageFile) : u = PageUrl(n)
FinalUrls(u) == IF IsListingUrl(u) THEN {u, Moved(u)} ELSE {u}

-----------------------------------------------------------------------------
(* Parser *)

\* parse_list_item raises (AttributeError) when the entry has no <h3><a>
ListItemRaises(article) == ~article.h3

parse_list_item(article, page_base_url) ==
    [title |-> article.title,
     product_page_url |-> urljoin(page_base_url, article.href),
     price_text |-> article.price,
     availability_text |-> article.availability,
     rating_text |-> article.rating,
     image_url |-> urljoin(page_base_url, article.img)]

\* the loop over table.find_all("tr"): info[th] = td, a later row winning
RECURSIVE TableInfo(_)
TableInfo(rows) ==
    IF rows = <<>> THEN EmptyDict
    ELSE LET last == rows[Len(rows)]
         IN  Update(TableInfo(Front(rows)), [k \in {last.th} |-> last.td])

\* row.find("th").text / row.find("td").text raise on a row lacking the cell
DetailRaises(soup) ==
    soup.has_table /\ \E i \in 1..Len(soup.rows) :
        soup.rows[i].th = Missing \/ soup.rows[i].td = Missing

\* parse_product_page, given what its call of get_soup_and_url returned
parse_product_page(fetched) ==
    IF ~fetched.ok THEN EmptyDict
    ELSE IF DetailRaises(fetched.soup) THEN EmptyDict
    ELSE LET soup == fetched.soup
             category == IF Len(soup.crumbs) >= 3 THEN soup.crumbs[3] ELSE None
             desc == IF soup.desc = Missing THEN "" ELSE soup.desc
             info == IF soup.has_table THEN TableInfo(soup.rows) ELSE EmptyDict
         IN  Update(Update([category |-> category, description |-> desc], info),
                    [fetched_url |-> fetched.final_url])

-----------------------------------------------------------------------------
(* Checkpoint store *)

\* A JSON file: absent, partial (truncated or cut short: json.load fails on it),
\* or the complete dump of a record sequence.
Absent == [kind |-> "absent", books |-> <<>>]
Partial == [kind |-> "partial", books |-> <<>>]
JsonFile(books) == [kind |-> "json", books |-> books]

\* Python's order of the keys a record may hold (upper case sorts first)
KeyOrder == <<"Product Type", "UPC", "availability_text", "category", "description",
              "fetched_url", "image_url", "price_text", "product_page_url",
              "rating_text", "title">>

UrlKeys == {"fetched_url", "image_url", "product_page_url"}

\* sorted({k for d in all_books for k in d.keys()})
AllKeys(books) == UNION {DOMAIN books[i] : i \in 1..Len(books)}

\* SortedKeys taking the keys of the first record only
FirstRowKeys(books) == SelectSeq(KeyOrder, LAMBDA k : k \in DOMAIN books[1])

SortedKeys(books) == SelectSeq(KeyOrder, LAMBDA k : k \in AllKeys(books))

\* csv.DictWriter: the cell of column k in the row of record d. A cell is <<>>
\* when empty (key missing, None or "") and <<value>> otherwise.
Cell(d, k) ==
    IF k \notin DOMAIN d THEN <<>>
    ELSE IF k \in UrlKeys THEN <<d[k]>>
    ELSE IF d[k] = None \/ d[k] = "" THEN <<>>
    ELSE <<d[k]>>

NoCsv == [kind |-> "absent", header |-> <<>>, rows |-> <<>>]

\* the file safe_write_csv writes for a non-empty all_books
CsvFile(books) ==
    LET keys == SortedKeys(books)
    IN  [kind |-> "csv", header |-> keys,
         rows |-> [i \in 1..Len(books) |-> [c \in 1..Len(keys) |-> Cell(books[i], keys[c])]]]

\* safe_write_csv: RAW_CSV after the call
safe_write_csv(books, csv) == IF books = <<>> THEN csv ELSE CsvFile(books)

\* Records of an earlier run, as a checkpoint found at startup holds them
BookA == LET listing == parse_list_item(GoodPod, PageUrl(1))
         IN  Update(listing, parse_product_page([ok |-> TRUE, soup |-> FullPage,
                                                 final_url |-> listing.product_page_url]))
BookB == parse_list_item(Pod(TRUE, "Tipping the Velvet", Ref(0, <<"old-b", "index.html">>),
                             "53.74", "In stock", "One", EmptyRef), PageUrl(1))
OldBooks(n) == [i \in 1..n |-> IF i % 2 = 1 THEN BookA ELSE BookB]

\* the lengths of the checkpoints found at startup: short ones, and one a single
\* record short of the checkpoint cadence
ResumeLens == (0..MaxResume) \cup {CheckpointEvery - 1}

-----------------------------------------------------------------------------
(* Fetcher: get_soup_and_url *)

NoResult == [ok |-> FALSE, soup |-> NoSoup, final_url |-> NoUrl]

Jitters == 0..(JitterSteps - 1)

\* time.sleep(delay * (1 + random.random())), in units of 1/JitterSteps second,
\* for random.random() = j/JitterSteps
SleepTime(d, j) == d * (JitterSteps + j)

\* NextDelay without the doubling
SameDelay(d) == d

\* delay *= 2
NextDelay(d) == d * 2

PagesFor(who) == IF who = "list" THEN ListingPages ELSE DetailPages

Returned(who) == IF who = "list" THEN "listed" ELSE "detailed"

\* Call with a detail fetch taking up the attempt count and the delay where
\* one failed attempt left them
CallSharedBudget(u, who) ==
    /\ pc' = "fetch"
    /\ url' = u
    /\ caller' = who
    /\ attempt' = IF who = "detail" THEN 2 ELSE 1
    /\ delay' = IF who = "detail" THEN NextDelay(backoff_factor) ELSE backoff_factor
    /\ gets' = 0
    /\ sleeps' = <<>>
    /\ result' = NoResult
    /\ UNCHANGED timed

\* the call get_soup_and_url(u), made by who
Call(u, who) ==
    /\ pc' = "fetch"
    /\ url' = u
    /\ caller' = who
    /\ attempt' = 1
    /\ delay' = backoff_factor
    /\ gets' = 0
    /\ sleeps' = <<>>
    /\ result' = NoResult
    /\ UNCHANGED timed

\* the locals of a call that has returned and whose result was used
Forget ==
    /\ url' = NoUrl
    /\ caller' = "none"
    /\ attempt' = 0
    /\ delay' = 0
    /\ gets' = 0
    /\ sleeps' = <<>>
    /\ result' = NoResult
    /\ UNCHANGED timed

\* the record of a sleep of duration t
Slept(log, t) == IF timed THEN Append(log, t) ELSE log

\* an attempt answered with status 200: return soup, resp.url
AttemptOk ==
    /\ pc = "fetch"
    /\ attempt <= max_retries
    /\ \E final \in FinalUrls(url), soup \in PagesFor(caller) :
          /\ served + Len(soup.pods) <= MaxItems
          /\ result' = [ok |-> TRUE, soup |-> soup, final_url |-> final]
          /\ served' = served + Len(soup.pods)
          /\ landed' = IF caller = "list" THEN final ELSE landed
    /\ gets' = gets + 1
    /\ pc' = Returned(caller)
    /\ UNCHANGED <<url, caller, attempt, delay, timed, sleeps>>
    /\ UNCHANGED <<crawlVars, fileVars, startJson, jsonBefore, saveArg, listed, cut>>
    /\ UNCHANGED cleanVars

\* an attempt that raises or is answered with another status: sleep, double the delay
AttemptFail ==
    /\ pc = "fetch"
    /\ attempt <= max_retries
    /\ gets' = gets + 1
    /\ \E j \in Jitters : sleeps' = Slept(sleeps, SleepTime(delay, j))
    /\ delay' = NextDelay(delay)
    /\ attempt' = attempt + 1
    /\ UNCHANGED <<pc, url, caller, timed, result>>
    /\ UNCHANGED <<crawlVars, fileVars, histVars>>
    /\ UNCHANGED cleanVars

\* the loop is over: log, return None, None
GiveUp ==
    /\ pc = "fetch"
    /\ attempt > max_retries
    /\ result' = NoResult
    /\ pc' = Returned(caller)
    /\ UNCHANGED <<url, caller, attempt, delay, gets, timed, sleeps>>
    /\ UNCHANGED <<crawlVars, fileVars, histVars>>
    /\ UNCHANGED cleanVars

-----------------------------------------------------------------------------
(* Checkpoint store: safe_write_json_partial, in its three steps *)

\* the call safe_write_json_partial(books), returning to r
BeginSave(r, books) ==
    /\ pc' = "save_open"
    /\ ret' = r
    /\ jsonBefore' = RAW_JSON
    /\ saveArg' = books

\* Dump writing only the records that came after the latest multiple of 20
DumpLatest(books) ==
    IF books = <<>> THEN JsonFile(books)
    ELSE JsonFile(SubSeq(books, ((Len(books) - 1) \div CheckpointEvery) * CheckpointEvery + 1,
                         Len(books)))

\* the file json.dump(all_books, f) leaves in the temporary path
Dump(books) == JsonFile(books)

\* what tmp.replace(RAW_JSON) leaves in the destination
Replace(tmp, dest) == tmp

\* SaveOpen with the destination opened for writing instead of the temporary path
SaveOpenInPlace ==
    /\ pc = "save_open"
    /\ RAW_JSON' = Partial
    /\ pc' = "save_dump"
    /\ UNCHANGED <<TMP_JSON, RAW_CSV, crawlVars, fetchVars, histVars>>
    /\ UNCHANGED cleanVars

\* open(tmp, "w"): the temporary file exists and is empty
SaveOpen ==
    /\ pc = "save_open"
    /\ TMP_JSON' = Partial
    /\ pc' = "save_dump"
    /\ UNCHANGED <<RAW_JSON, RAW_CSV, crawlVars, fetchVars, histVars>>
    /\ UNCHANGED cleanVars

\* json.dump and the close that ends the with block
SaveDump ==
    /\ pc = "save_dump"
    /\ TMP_JSON' = Dump(all_books)
    /\ pc' = "save_replace"
    /\ UNCHANGED <<RAW_JSON, RAW_CSV, crawlVars, fetchVars, histVars>>
    /\ UNCHANGED cleanVars

\* tmp.replace(RAW_JSON), and the return to the caller
SaveReplace ==
    /\ pc = "save_replace"
    /\ RAW_JSON' = Replace(TMP_JSON, RAW_JSON)
    /\ TMP_JSON' = Absent
    /\ pc' = IF ret = "final" THEN "csv" ELSE "items"
    /\ ret' = "none"
    /\ UNCHANGED <<RAW_CSV, page, all_books, articles, page_final_url, item>>
    /\ UNCHANGED <<fetchVars, histVars>>
    /\ UNCHANGED cleanVars

-----------------------------------------------------------------------------
(* Crawl controller: scrape_all *)

\* LoadBooks that starts afresh whatever the file holds
LoadNothing(file) == <<>>

\* json.load of the checkpoint found at startup; a file that fails to load
\* (the except branch) and an absent file leave all_books = []
LoadBooks(file) == IF file.kind = "json" THEN file.books ELSE <<>>

\* Startup with a resumed run taking up the pagination at page 2
StartupResumePage ==
    /\ pc = "start"
    /\ all_books' = LoadBooks(RAW_JSON)
    /\ page' = IF all_books' = <<>> THEN 1 ELSE 2
    /\ pc' = "loop"
    /\ UNCHANGED <<articles, page_final_url, item, ret>>
    /\ UNCHANGED <<fileVars, fetchVars, histVars>>
    /\ UNCHANGED cleanVars

\* page = 1, all_books = [], and the load of the checkpoint found
Startup ==
    /\ pc = "start"
    /\ all_books' = LoadBooks(RAW_JSON)
    /\ pc' = "loop"
    /\ UNCHANGED <<page, articles, page_final_url, item, ret>>
    /\ UNCHANGED <<fileVars, fetchVars, histVars>>
    /\ UNCHANGED cleanVars

\* while page <= max_pages: fetch the listing page
FetchPage ==
    /\ pc = "loop"
    /\ page <= MaxPages
    /\ Call(PageUrl(page), "list")
    /\ listed' = Append(listed, page)
    /\ UNCHANGED <<crawlVars, fileVars, startJson, jsonBefore, saveArg, served, landed, cut>>
    /\ UNCHANGED cleanVars

\* the loop condition fails: final save
PagesExhausted ==
    /\ pc = "loop"
    /\ page > MaxPages
    /\ BeginSave("final", all_books)
    /\ UNCHANGED <<page, all_books, articles, page_final_url, item>>
    /\ UNCHANGED <<fileVars, fetchVars, startJson, listed, served, landed, cut>>
    /\ UNCHANGED cleanVars

\* soup is None: break, final save
StopOnFetchFailure ==
    /\ pc = "listed"
    /\ ~result.ok
    /\ BeginSave("final", all_books)
    /\ Forget
    /\ UNCHANGED <<page, all_books, articles, page_final_url, item>>
    /\ UNCHANGED <<fileVars, startJson, listed, served, landed, cut>>
    /\ UNCHANGED cleanVars

\* StopOnEmptyPage with continue in place of break
SkipEmptyPage ==
    /\ pc = "listed"
    /\ result.ok
    /\ result.soup.pods = <<>>
    /\ page' = page + 1
    /\ pc' = "loop"
    /\ Forget
    /\ UNCHANGED <<all_books, articles, page_final_url, item, ret>>
    /\ UNCHANGED <<fileVars, histVars>>
    /\ UNCHANGED cleanVars

\* no article.product_pod on the page: break, final save
StopOnEmptyPage ==
    /\ pc = "listed"
    /\ result.ok
    /\ result.soup.pods = <<>>
    /\ BeginSave("final", all_books)
    /\ Forget
    /\ UNCHANGED <<page, all_books, articles, page_final_url, item>>
    /\ UNCHANGED <<fileVars, startJson, listed, served, landed, cut>>
    /\ UNCHANGED cleanVars

\* the page has entries: enter the for loop
StartItems ==
    /\ pc = "listed"
    /\ result.ok
    /\ result.soup.pods # <<>>
    /\ articles' = result.soup.pods
    /\ page_final_url' = result.final_url
    /\ pc' = "items"
    /\ Forget
    /\ UNCHANGED <<page, all_books, item, ret>>
    /\ UNCHANGED <<fileVars, histVars>>
    /\ UNCHANGED cleanVars

\* PageBase as the site root, whatever the response's URL
SiteRoot(final) == BASE

\* the base parse_list_item is given: page_final_url or BASE
PageBase(final) == IF final = NoUrl THEN BASE ELSE final

\* AfterItem without the checkpoint every 20 records
AfterItemNoCheckpoint ==
    /\ articles' = Tail(articles)
    /\ item' = EmptyDict
    /\ pc' = "items"
    /\ UNCHANGED <<ret, jsonBefore, saveArg>>

\* the end of the for body: the entry is done, and the list is checkpointed
\* when its length is a multiple of 20
AfterItem ==
    /\ articles' = Tail(articles)
    /\ item' = EmptyDict
    /\ IF Len(all_books') % CheckpointEvery = 0
       THEN BeginSave("items", all_books')
       ELSE pc' = "items" /\ UNCHANGED <<ret, jsonBefore, saveArg>>

\* parse_list_item succeeds: call parse_product_page, which calls get_soup_and_url
ItemListing ==
    /\ pc = "items"
    /\ articles # <<>>
    /\ ~ListItemRaises(Head(articles))
    /\ item' = parse_list_item(Head(articles), PageBase(page_final_url))
    /\ Call(item'.product_page_url, "detail")
    /\ UNCHANGED <<page, all_books, articles, page_final_url, ret>>
    /\ UNCHANGED <<fileVars, histVars>>
    /\ UNCHANGED cleanVars

\* parse_list_item raises: the except branch logs, nothing is appended
ItemSkipped ==
    /\ pc = "items"
    /\ articles # <<>>
    /\ ListItemRaises(Head(articles))
    /\ all_books' = all_books
    /\ AfterItem
    /\ UNCHANGED <<page, page_final_url>>
    /\ UNCHANGED <<fileVars, fetchVars, startJson, listed, served, landed, cut>>
    /\ UNCHANGED cleanVars

\* the record appended for an entry: item.update(detail)
Merged(listing, detail) == Update(listing, detail)

\* Appended with a record of the same product_page_url overwritten in place
Upserted(books, record) ==
    IF \E i \in 1..Len(books) : books[i].product_page_url = record.product_page_url
    THEN [i \in 1..Len(books) |->
             IF books[i].product_page_url = record.product_page_url THEN record ELSE books[i]]
    ELSE Append(books, record)

\* all_books.append(item)
Appended(books, record) == Append(books, record)

\* parse_product_page returns: update the item, append it
ItemDetail ==
    /\ pc = "detailed"
    /\ all_books' = Appended(all_books, Merged(item, parse_product_page(result)))
    /\ AfterItem
    /\ Forget
    /\ UNCHANGED <<page, page_final_url>>
    /\ UNCHANGED <<fileVars, startJson, listed, served, landed, cut>>
    /\ UNCHANGED cleanVars

\* the for loop is over: page += 1
NextPage ==
    /\ pc = "items"
    /\ articles = <<>>
    /\ page' = page + 1
    /\ pc' = "loop"
    /\ UNCHANGED <<all_books, articles, page_final_url, item, ret>>
    /\ UNCHANGED <<fileVars, fetchVars, histVars>>
    /\ UNCHANGED cleanVars

\* safe_write_csv(all_books) after the final save; scrape_all returns
FinalCsv ==
    /\ pc = "csv"
    /\ RAW_CSV' = safe_write_csv(all_books, RAW_CSV)
    /\ pc' = "done"
    /\ UNCHANGED <<RAW_JSON, TMP_JSON, crawlVars, fetchVars, histVars>>
    /\ UNCHANGED cleanVars

-----------------------------------------------------------------------------
(* The entry point: the KeyboardInterrupt handler, and a crash *)

Running == pc \notin {"done", "interrupted", "crashed"}

\* the names locals() holds in the handler, which runs at module level:
\* the module's globals. all_books is a local of scrape_all.
ModuleNames == {"requests", "BeautifulSoup", "time", "random", "json", "csv", "logging",
                "traceback", "urljoin", "Path", "tqdm", "BASE", "DATA_DIR", "RAW_JSON",
                "RAW_CSV", "HEADERS", "get_soup_and_url", "parse_list_item",
                "parse_product_page", "safe_write_json_partial", "safe_write_csv",
                "scrape_all"}

\* 'all_books' in locals()
HandlerHasBooks == "all_books" \in ModuleNames

\* KeyboardInterrupt while scrape_all runs: no except Exception catches it, a
\* with block closes its file, and the handler saves if it finds all_books,
\* then raises again. The frames of scrape_all and of what it called are gone;
\* all_books is kept as the list the handler is meant to save.
Interrupt ==
    /\ Running
    /\ pc' = "interrupted"
    /\ cut' = pc
    /\ IF HandlerHasBooks
       THEN /\ RAW_JSON' = Replace(Dump(all_books), RAW_JSON)
            /\ TMP_JSON' = Absent
            /\ RAW_CSV' = safe_write_csv(all_books, RAW_CSV)
            /\ jsonBefore' = RAW_JSON
            /\ saveArg' = all_books
       ELSE UNCHANGED <<fileVars, jsonBefore, saveArg>>
    /\ Forget
    /\ articles' = <<>>
    /\ page_final_url' = NoUrl
    /\ item' = EmptyDict
    /\ ret' = "none"
    /\ UNCHANGED <<page, all_books, startJson, listed, served, landed>>
    /\ UNCHANGED cleanVars

\* the process is killed in the middle of a save: the files stay as they are
Crash ==
    /\ pc \in {"save_open", "save_dump", "save_replace"}
    /\ pc' = "crashed"
    /\ cut' = pc
    /\ articles' = <<>>
    /\ page_final_url' = NoUrl
    /\ item' = EmptyDict
    /\ ret' = "none"
    /\ UNCHANGED <<page, all_books, fileVars, fetchVars, startJson, jsonBefore, saveArg, listed, served, landed>>
    /\ UNCHANGED cleanVars

-----------------------------------------------------------------------------
(* The crawl *)

\* the tabular file found at startup: the export of the earlier run that left
\* the checkpoint; beside no checkpoint or an empty one, none or one still older
StartCsv(json) ==
    IF json.kind = "json" /\ json.books # <<>>
    THEN {CsvFile(json.books)}
    ELSE {NoCsv, CsvFile(OldBooks(1))}

Init ==
    /\ pc = "start"
    /\ page = 1
    /\ all_books = <<>>
    /\ articles = <<>>
    /\ page_final_url = NoUrl
    /\ item = EmptyDict
    /\ ret = "none"
    /\ RAW_JSON \in {Absent, Partial} \cup {JsonFile(OldBooks(n)) : n \in ResumeLens}
    /\ TMP_JSON = Absent
    /\ RAW_CSV \in StartCsv(RAW_JSON)
    /\ url = NoUrl
    /\ caller = "none"
    /\ attempt = 0
    /\ delay = 0
    /\ gets = 0
    /\ timed = FALSE
    /\ sleeps = <<>>
    /\ result = NoResult
    /\ startJson = RAW_JSON
    /\ jsonBefore = RAW_JSON
    /\ saveArg = <<>>
    /\ listed = <<>>
    /\ served = 0
    /\ landed = NoUrl
    /\ cut = "none"
    /\ avail_text = <<>>
    /\ avail_result = NoValue
    /\ df_clean = NoFrame

Next ==
    \/ Startup
    \/ FetchPage
    \/ PagesExhausted
    \/ AttemptOk
    \/ AttemptFail
    \/ GiveUp
    \/ StopOnFetchFailure
    \/ StopOnEmptyPage
    \/ StartItems
    \/ ItemListing
    \/ ItemSkipped
    \/ ItemDetail
    \/ NextPage
    \/ SaveOpen
    \/ SaveDump
    \/ SaveReplace
    \/ FinalCsv
    \/ Interrupt
    \/ Crash

Spec == Init /\ [][Next]_vars

\* the steps of the process itself: every step but an interrupt or a kill
Program ==
    \/ Startup
    \/ FetchPage
    \/ PagesExhausted
    \/ AttemptOk
    \/ AttemptFail
    \/ GiveUp
    \/ StopOnFetchFailure
    \/ StopOnEmptyPage
    \/ StartItems
    \/ ItemListing
    \/ ItemSkipped
    \/ ItemDetail
    \/ NextPage
    \/ SaveOpen
    \/ SaveDump
    \/ SaveReplace
    \/ FinalCsv

\* a run started without a checkpoint, or resumed from one
InitRun ==
    /\ Init
    /\ RAW_JSON \in {Absent, JsonFile(OldBooks(1))}

\* A run that nothing interrupts, with its scheduling: scrape_all is one
\* sequential thread, every request is made with timeout=10 and so returns or
\* raises, every sleep is finite and every file operation returns; a process
\* that can take a step takes one.
SpecRun == InitRun /\ [][Program]_vars /\ WF_vars(Program)

-----------------------------------------------------------------------------
(* One call of get_soup_and_url on its own, its sleeps recorded *)

FetchedUrls == {PageUrl(1), BookA.product_page_url}

InitFetch ==
    /\ pc = "fetch"
    /\ page = 1
    /\ all_books = <<>>
    /\ articles = <<>>
    /\ page_final_url = NoUrl
    /\ item = EmptyDict
    /\ ret = "none"
    /\ RAW_JSON = Absent
    /\ TMP_JSON = Absent
    /\ RAW_CSV = NoCsv
    /\ url \in FetchedUrls
    /\ caller = IF IsListingUrl(url) THEN "list" ELSE "detail"
    /\ attempt = 1
    /\ delay = backoff_factor
    /\ gets = 0
    /\ timed = TRUE
    /\ sleeps = <<>>
    /\ result = NoResult
    /\ startJson = Absent
    /\ jsonBefore = Absent
    /\ saveArg = <<>>
    /\ listed = <<>>
    /\ served = 0
    /\ landed = NoUrl
    /\ cut = "none"
    /\ avail_text = <<>>
    /\ avail_result = NoValue
    /\ df_clean = NoFrame

NextFetch ==
    \/ AttemptOk
    \/ AttemptFail
    \/ GiveUp

SpecFetch == InitFetch /\ [][NextFetch]_vars

-----------------------------------------------------------------------------
(* Cleaning stage: transform_and_load.py *)

\* A text of the cleaning stage is the sequence of its characters.
Digits == <<"0", "1", "2", "3", "4", "5", "6", "7", "8", "9">>
IsDigit(c) == \E d \in 1..Len(Digits) : Digits[d] = c
DigitValue(c) == (CHOOSE d \in 1..Len(Digits) : Digits[d] = c) - 1

HasDigit(text) == \E i \in 1..Len(text) : IsDigit(text[i])

\* re.search(r"(\d+)", text).group(1): the match starts at the leftmost digit
\* and takes every digit that follows it without a gap
DigitRun(text) ==
    LET first == CHOOSE i \in 1..Len(text) :
                     IsDigit(text[i]) /\ \A j \in 1..(i - 1) : ~IsDigit(text[j])
        last == CHOOSE k \in first..Len(text) :
                     /\ \A j \in first..k : IsDigit(text[j])
                     /\ (k = Len(text) \/ ~IsDigit(text[k + 1]))
    IN  SubSeq(text, first, last)

\* int() of a run of digits
RECURSIVE int(_)
int(ds) == IF ds = <<>> THEN 0 ELSE 10 * int(Front(ds)) + DigitValue(ds[Len(ds)])

\* parse_availability matching a single digit, r"(\d)"
parse_availability_one_digit(text) ==
    IF text = <<>> THEN NoValue
    ELSE IF HasDigit(text) THEN Some(int(SubSeq(DigitRun(text), 1, 1)))
    ELSE Some(0)

parse_availability(text) ==
    IF text = <<>> THEN NoValue
    ELSE IF HasDigit(text) THEN Some(int(DigitRun(text)))
    ELSE Some(0)

\* RATING_MAP.get(rating_word, None)
RATING_MAP == [w \in {"One", "Two", "Three", "Four", "Five", "Zero", ""} |->
                  CASE w = "One" -> Some(1) [] w = "Two" -> Some(2) [] w = "Three" -> Some(3)
                    [] w = "Four" -> Some(4) [] w = "Five" -> Some(5) [] w = "Zero" -> Some(0)
                    [] w = "" -> NoValue]
rating_word_to_int(rating_word) ==
    IF rating_word \in DOMAIN RATING_MAP THEN RATING_MAP[rating_word] ELSE NoValue

\* the characters the availability texts are made of
TextChars == {"k", " ", "(", "2", "0"}
AvailTexts == SeqsUpTo(TextChars, MaxText)

\* the call parse_availability(avail_text) returns
ParseAvailability ==
    /\ pc = "parse_availability"
    /\ avail_result' = parse_availability(avail_text)
    /\ pc' = "parsed"
    /\ UNCHANGED <<crawlVars, fileVars, fetchVars, histVars, avail_text, df_clean>>

\* the crawler's variables while the cleaning stage runs: scrape.py is not running
CrawlerIdle ==
    /\ page = 1
    /\ all_books = <<>>
    /\ articles = <<>>
    /\ page_final_url = NoUrl
    /\ item = EmptyDict
    /\ ret = "none"
    /\ TMP_JSON = Absent
    /\ RAW_CSV = NoCsv
    /\ url = NoUrl
    /\ caller = "none"
    /\ attempt = 0
    /\ delay = 0
    /\ gets = 0
    /\ timed = FALSE
    /\ sleeps = <<>>
    /\ result = NoResult
    /\ startJson = RAW_JSON
    /\ jsonBefore = RAW_JSON
    /\ saveArg = <<>>
    /\ listed = <<>>
    /\ served = 0
    /\ landed = NoUrl
    /\ cut = "none"

InitAvail ==
    /\ pc = "parse_availability"
    /\ RAW_JSON = Absent
    /\ CrawlerIdle
    /\ avail_text \in AvailTexts
    /\ avail_result = NoValue
    /\ df_clean = NoFrame

NextAvail == ParseAvailability

SpecAvail == InitAvail /\ [][NextAvail]_vars

\* A record of the raw dataset, as parse_list_item makes it; u is Some(url),
\* Some(NoUrl) for a null product_page_url, or NoValue for a record without the key.
RawRecord(u, avail) ==
    LET listing == [title |-> "A Light in the Attic", price_text |-> "51.77",
                    availability_text |-> avail, rating_text |-> "Three",
                    image_url |-> urljoin(PageUrl(1), Ref(1, <<"media", "1.jpg">>))]
    IN  IF u = NoValue THEN listing ELSE Update(listing, [product_page_url |-> u[1]])

RawUrls == {NoValue, Some(NoUrl), Some(BookA.product_page_url), Some(BookB.product_page_url)}
RawTexts == {<<>>, <<"(", "2", "2">>}
RawRecords == {RawRecord(u, a) : u \in RawUrls, a \in RawTexts}

\* the columns clean_data reads with df[...]: a KeyError when the frame,
\* whose columns are the keys of its records, lacks one
ReadColumns == {"price_text", "availability_text", "rating_text", "title", "product_page_url"}
CleanRaises(raw) == ~(ReadColumns \subseteq AllKeys(raw))

\* df.dropna(subset=['product_page_url']): the rows whose URL is missing or null go
HasUrl(rec) == "product_page_url" \in DOMAIN rec /\ rec.product_page_url # NoUrl
dropna(rows) == SelectSeq(rows, HasUrl)

\* drop_duplicates keeping the last row of each product_page_url
RECURSIVE drop_duplicates_keep_last(_)
drop_duplicates_keep_last(rows) ==
    IF rows = <<>> THEN <<>>
    ELSE LET rest == drop_duplicates_keep_last(Tail(rows))
         IN  IF \E i \in 1..Len(rest) : rest[i].product_page_url = Head(rows).product_page_url
             THEN rest
             ELSE <<Head(rows)>> \o rest

\* df.drop_duplicates(subset=['product_page_url']): keep='first' is the default
RECURSIVE drop_duplicates(_)
drop_duplicates(rows) ==
    IF rows = <<>> THEN <<>>
    ELSE LET kept == drop_duplicates(Front(rows))
             row == rows[Len(rows)]
         IN  IF \E i \in 1..Len(kept) : kept[i].product_page_url = row.product_page_url
             THEN kept
             ELSE Append(kept, row)

\* the columns of the cleaned frame, price and title left out: cols, less the
\* ones the frame does not have
CleanCols(raw) ==
    {"product_page_url", "category", "availability", "rating", "description", "image_url"}
        \cap (AllKeys(raw) \cup {"availability", "rating"})

\* the cleaned row of a raw record: the new columns, and NaN where the record
\* lacks a column another record has
CleanRow(rec, cols) ==
    [k \in cols |->
        IF k = "availability" THEN parse_availability(rec.availability_text)
        ELSE IF k = "rating" THEN rating_word_to_int(rec.rating_text)
        ELSE IF k \in DOMAIN rec THEN rec[k]
        ELSE None]

\* clean_data, for a frame that has the columns it reads
clean_data(raw) ==
    LET kept == drop_duplicates(dropna(raw))
    IN  [i \in 1..Len(kept) |-> CleanRow(kept[i], CleanCols(raw))]

\* main of transform_and_load.py as far as df_clean: json.load, pd.DataFrame,
\* clean_data; a KeyError ends the process
Transform ==
    /\ pc = "transform"
    /\ IF CleanRaises(RAW_JSON.books)
       THEN pc' = "transform_failed" /\ UNCHANGED df_clean
       ELSE pc' = "transformed" /\ df_clean' = Frame(clean_data(RAW_JSON.books))
    /\ UNCHANGED <<crawlVars, fileVars, fetchVars, histVars, avail_text, avail_result>>

InitClean ==
    /\ pc = "transform"
    /\ RAW_JSON \in {JsonFile(raw) : raw \in SeqsUpTo(RawRecords, MaxRaw)}
    /\ CrawlerIdle
    /\ avail_text = <<>>
    /\ avail_result = NoValue
    /\ df_clean = NoFrame

NextClean == Transform

SpecClean == InitClean /\ [][NextClean]_vars

-----------------------------------------------------------------------------
(* One detail page parsed and merged, for every shape of its markup *)

\* the rows a product information table may hold: whole, without <th>, without <td>
DetailRows == {Row("UPC", "a897fe39"), Row("Product Type", "Books"),
               Row(Missing, "Books"), Row("Availability", Missing)}

\* the breadcrumb trails: none, one short of a category, one with a category
CrumbTrails == {<<>>, <<"Home", "Books">>, <<"Home", "Books", "Poetry">>}

\* every detail page made of these parts, with and without each of them
AnyDetailPages ==
    {Soup(<<>>, crumbs, desc, FALSE, <<>>) :
        crumbs \in CrumbTrails, desc \in {Missing, "It's hard to imagine"}}
    \cup
    {Soup(<<>>, crumbs, desc, TRUE, rows) :
        crumbs \in CrumbTrails, desc \in {Missing, "It's hard to imagine"},
        rows \in SeqsUpTo(DetailRows, MaxRows)}

\* scrape_all has parsed the first entry of page 1 and parse_product_page's
\* fetch of its detail page was answered with 200
InitDetail ==
    /\ pc = "detailed"
    /\ page = 1
    /\ all_books = <<>>
    /\ articles = <<GoodPod>>
    /\ page_final_url = PageUrl(1)
    /\ item = parse_list_item(GoodPod, PageUrl(1))
    /\ ret = "none"
    /\ RAW_JSON = Absent
    /\ TMP_JSON = Absent
    /\ RAW_CSV = NoCsv
    /\ url = item.product_page_url
    /\ caller = "detail"
    /\ attempt = 1
    /\ delay = backoff_factor
    /\ gets = 1
    /\ timed = FALSE
    /\ sleeps = <<>>
    /\ \E soup \in AnyDetailPages : result = [ok |-> TRUE, soup |-> soup, final_url |-> url]
    /\ startJson = Absent
    /\ jsonBefore = Absent
    /\ saveArg = <<>>
    /\ listed = <<1>>
    /\ served = 1
    /\ landed = PageUrl(1)
    /\ cut = "none"
    /\ avail_text = <<>>
    /\ avail_result = NoValue
    /\ df_clean = NoFrame

NextDetail == ItemDetail

SpecDetail == InitDetail /\ [][NextDetail]_vars

-----------------------------------------------------------------------------
(* Properties *)

SaveSteps == {"save_open", "save_dump", "save_replace"}

\* C1: checkpoint atomicity. In every state, a crash or an interrupt inside a
\* save included, RAW_JSON is what it was when the latest save began or the
\* complete dump of the list that save was given; it is never a partial file
\* unless it was one at startup; and while a save has not renamed yet (or was
\* cut off before its rename) RAW_JSON is exactly what it was when the save began.
C1_CheckpointAtomic ==
    /\ RAW_JSON = jsonBefore \/ RAW_JSON = JsonFile(saveArg)
    /\ RAW_JSON.kind = "partial" => RAW_JSON = startJson
    /\ (pc \in SaveSteps \/ cut \in SaveSteps) => RAW_JSON = jsonBefore

\* a crash after the temporary file was written and before the rename, over a
\* committed snapshot that differs from the new one
C1_Witness ==
    /\ pc = "crashed"
    /\ cut = "save_replace"
    /\ TMP_JSON = JsonFile(saveArg)
    /\ RAW_JSON.kind = "json"
    /\ RAW_JSON.books # saveArg

\* C2: after a KeyboardInterrupt during scrape_all the process has written, before
\* it ends, a checkpoint and a tabular export of all_books as it was at the
\* interrupt: the records RAW_JSON holds once the process has ended are those of
\* all_books, and RAW_CSV is their export. (Stated for the interrupts that come
\* after the startup load; a file that is absent holds no records.)
C2_InterruptFlushes ==
    (pc = "interrupted" /\ cut # "start") =>
        /\ RAW_JSON.books = all_books
        /\ all_books # <<>> => RAW_CSV = CsvFile(all_books)

Finalizing == ret = "final" \/ pc \in {"csv", "done"}

\* C3: Finalize is terminal. A listing page that failed or holds no entry, and
\* the end of the page range, lead to Finalize and nowhere else; in Finalize the
\* pages requested are 1..page (none after the one that triggered it), the save
\* is given the full all_books, and the run ends normally with RAW_JSON
\* holding exactly all_books.
C3_FinalizeTerminal ==
    /\ [](Finalizing =>
            /\ listed = [i \in 1..Min(page, MaxPages) |-> i]
            /\ saveArg = all_books
            /\ pc \in {"csv", "done"} => RAW_JSON = JsonFile(all_books))
    /\ [][(\/ pc = "listed" /\ (~result.ok \/ result.soup.pods = <<>>)
           \/ pc = "loop" /\ page > MaxPages)
          => (Finalizing' \/ pc' = "interrupted")]_vars
    /\ [][Finalizing => (Finalizing' \/ pc' \in {"interrupted", "crashed"})]_vars

\* a run ended by a break on page 2, after records were appended
C3_Witness ==
    /\ pc = "done"
    /\ page = 2
    /\ listed = <<1, 2>>
    /\ Len(all_books) > Len(startJson.books)

\* C4: all_books is append-only: every step leaves it a prefix of its new value,
\* and from the load on the records of the startup checkpoint are a prefix of
\* it, and of the final snapshot.
C4_AppendOnly ==
    /\ [][IsPrefix(all_books, all_books')]_vars
    /\ [](pc # "start" /\ cut # "start" => IsPrefix(startJson.books, all_books))
    /\ [](pc = "done" => IsPrefix(startJson.books, RAW_JSON.books))

\* a resumed run re-derived a record the checkpoint already held, after an entry
\* that failed to parse
C4_Witness ==
    /\ pc = "done"
    /\ startJson.books = <<BookA>>
    /\ Len(all_books) = 2
    /\ all_books[2] = BookA
    /\ served = 2

\* C5: every item entry of a listing page answered with 200 appends exactly one
\* record: between entries, all_books holds the loaded records and one record
\* for each entry served and already processed.
C5_EveryEntryAppended ==
    pc = "items" => Len(all_books) = Len(startJson.books) + served - Len(articles)

NonDecreasing(s) == \A i \in 1..(Len(s) - 1) : s[i] <= s[i + 1]

\* C6: a call whose every attempt fails makes exactly max_retries GETs, then
\* returns (None, None) without raising, and its sleeps never decrease,
\* whatever the jitter.
C6_ExhaustedFetch ==
    /\ NonDecreasing(sleeps)
    /\ gets <= max_retries
    /\ (pc = "fetch" /\ gets = max_retries) => (attempt > max_retries /\ ENABLED GiveUp)
    /\ (pc # "fetch" /\ Len(sleeps) = gets) => (gets = max_retries /\ result = NoResult)

\* every attempt failed, the largest jitter first and the smallest next
C6_Witness ==
    /\ pc # "fetch"
    /\ ~result.ok
    /\ Len(sleeps) = max_retries
    /\ sleeps[1] = SleepTime(backoff_factor, JitterSteps - 1)
    /\ sleeps[2] = SleepTime(2 * backoff_factor, 0)

Last(s) == s[Len(s)]

\* C7: a call answered with 200 after R < max_retries failures returns on attempt
\* R + 1, having made R + 1 GETs, and returns the response's final URL; the
\* controller resolves the link and the image of every entry of that listing
\* page against that URL, in the item it builds and in the record it appends.
C7_FinalUrlIsBase ==
    /\ [](pc \in {"listed", "detailed"} /\ result.ok =>
            /\ gets = attempt
            /\ attempt <= max_retries
            /\ result.final_url \in FinalUrls(url)
            /\ caller = "list" => result.final_url = landed)
    /\ [](item # EmptyDict =>
            /\ item.product_page_url = urljoin(landed, Head(articles).href)
            /\ item.image_url = urljoin(landed, Head(articles).img))
    /\ [][pc = "detailed" /\ pc' # "interrupted" =>
            /\ Last(all_books').product_page_url = urljoin(landed, Head(articles).href)
            /\ Last(all_books').image_url = urljoin(landed, Head(articles).img)]_vars
    /\ [][(pc \in {"listed", "detailed"}) => gets' <= gets]_vars

\* a listing page with entries, answered with 200 on the third attempt at a URL
\* other than the one requested, where the three bases give three different links
C7_Witness ==
    /\ pc = "listed"
    /\ result.ok
    /\ gets = 3
    /\ result.final_url # url
    /\ result.soup.pods # <<>>
    /\ LET href == Head(result.soup.pods).href
       IN  /\ href # EmptyRef
           /\ urljoin(result.final_url, href) # urljoin(url, href)
           /\ urljoin(result.final_url, href) # urljoin(BASE, href)

\* C8: right after the load and before any fetch, all_books is exactly the
\* record sequence the checkpoint file held, and is empty when there was no file.
C8_ResumeExact ==
    (pc = "loop" /\ listed = <<>>) =>
        /\ startJson.kind = "json" => all_books = startJson.books
        /\ startJson.kind = "absent" => all_books = <<>>

\* loaded [A, B], nothing fetched yet
C8_Witness ==
    /\ pc = "loop"
    /\ listed = <<>>
    /\ startJson = JsonFile(<<BookA, BookB>>)
    /\ all_books = <<BookA, BookB>>

\* C9: after Finalize the tabular file is the export of the final all_books,
\* the records RAW_JSON holds, for every final all_books, the empty one included.
C9_CsvRegenerated ==
    pc = "done" => RAW_CSV = CsvFile(RAW_JSON.books)

Pos(k) == CHOOSE i \in 1..Len(KeyOrder) : KeyOrder[i] = k

\* C10: the export of a non-empty all_books has as its columns the union of the
\* records' keys, in sorted order; one row per record, in order; under each
\* column the record's value, and an empty cell where the record lacks the key.
C10_CsvExport ==
    (pc = "done" /\ all_books # <<>>) =>
        /\ RAW_CSV.kind = "csv"
        /\ {RAW_CSV.header[c] : c \in 1..Len(RAW_CSV.header)} = AllKeys(all_books)
        /\ \A c \in 1..(Len(RAW_CSV.header) - 1) :
              Pos(RAW_CSV.header[c]) < Pos(RAW_CSV.header[c + 1])
        /\ Len(RAW_CSV.rows) = Len(all_books)
        /\ \A i \in 1..Len(all_books) :
              /\ Len(RAW_CSV.rows[i]) = Len(RAW_CSV.header)
              /\ \A c \in 1..Len(RAW_CSV.header) :
                    LET k == RAW_CSV.header[c]
                    IN  IF k \in DOMAIN all_books[i]
                        THEN RAW_CSV.rows[i][c] \in {<<>>, <<all_books[i][k]>>}
                        ELSE RAW_CSV.rows[i][c] = <<>>

\* an export where the second record brings keys the first one lacks, and the
\* first row has an empty cell under such a key
C10_Witness ==
    /\ pc = "done"
    /\ Len(all_books) = 2
    /\ "UPC" \notin DOMAIN all_books[1]
    /\ "UPC" \in DOMAIN all_books[2]
    /\ \E c \in 1..Len(RAW_CSV.header) :
          RAW_CSV.header[c] = "UPC" /\ RAW_CSV.rows[1][c] = <<>> /\ RAW_CSV.rows[2][c] # <<>>

\* 10 to the power n
RECURSIVE Pow10(_)
Pow10(n) == IF n = 0 THEN 1 ELSE 10 * Pow10(n - 1)

\* the number a run of digits writes in base ten
RECURSIVE DecimalValue(_)
DecimalValue(ds) ==
    IF ds = <<>> THEN 0
    ELSE DigitValue(Head(ds)) * Pow10(Len(ds) - 1) + DecimalValue(Tail(ds))

\* text[i..k] is the first numeric token of text
IsFirstToken(text, i, k) ==
    /\ i <= k
    /\ \A j \in 1..(i - 1) : ~IsDigit(text[j])
    /\ \A j \in i..k : IsDigit(text[j])
    /\ k = Len(text) \/ ~IsDigit(text[k + 1])

\* the number the first numeric token of text writes is n
FirstTokenIs(text, n) ==
    \E i \in 1..Len(text), k \in 1..Len(text) :
        IsFirstToken(text, i, k) /\ n = DecimalValue(SubSeq(text, i, k))

\* C11: availability extraction as stated. For every availability text,
\* parse_availability returns the first numeric token as an integer when the
\* text has one, and 0 when it has none, the empty text included.
C11_AvailabilityExtraction ==
    pc = "parsed" =>
        IF HasDigit(avail_text)
        THEN avail_result # NoValue /\ FirstTokenIs(avail_text, avail_result[1])
        ELSE avail_result = Some(0)

\* C11, amended: parse_availability returns the first numeric token as an
\* integer when the text has one, 0 when the text is not empty and has none,
\* and None for the empty text.
C11_AvailabilityOrNone ==
    pc = "parsed" =>
        IF HasDigit(avail_text)
        THEN avail_result # NoValue /\ FirstTokenIs(avail_text, avail_result[1])
        ELSE IF avail_text = <<>> THEN avail_result = NoValue
        ELSE avail_result = Some(0)

\* a text whose first numeric token has two digits was parsed to their number
C11_Witness ==
    /\ pc = "parsed"
    /\ avail_text = <<"(", "2", "0">>
    /\ avail_result = Some(20)

\* the first record of raw that carries the product_page_url of raw[j] is raw[j]
FirstOccurrence(raw, j) ==
    /\ HasUrl(raw[j])
    /\ \A h \in 1..(j - 1) :
           ~(HasUrl(raw[h]) /\ raw[h].product_page_url = raw[j].product_page_url)

\* C12: cleaning-stage deduplication. For every raw record sequence clean_data
\* returns a frame for, no cleaned row lacks product_page_url, every cleaned
\* row carries a product_page_url of the raw input, and each distinct
\* product_page_url of the raw input has exactly one cleaned row, made from
\* its first raw occurrence.
C12_Deduplicated ==
    pc = "transformed" =>
        LET raw == RAW_JSON.books
            rows == df_clean.rows
            RowsOf(u) == {i \in 1..Len(rows) : rows[i].product_page_url = u}
        IN  /\ df_clean.ok
            /\ \A i \in 1..Len(rows) :
                   /\ "product_page_url" \in DOMAIN rows[i]
                   /\ rows[i].product_page_url # NoUrl
                   /\ \E j \in 1..Len(raw) :
                          HasUrl(raw[j]) /\ raw[j].product_page_url = rows[i].product_page_url
            /\ \A j \in 1..Len(raw) :
                   FirstOccurrence(raw, j) =>
                       /\ Cardinality(RowsOf(raw[j].product_page_url)) = 1
                       /\ \A i \in RowsOf(raw[j].product_page_url) :
                              /\ rows[i].image_url = raw[j].image_url
                              /\ rows[i].availability = parse_availability(raw[j].availability_text)

\* two raw records share a product_page_url and differ in availability, a
\* third has none: one cleaned row, made from the first
C12_Witness ==
    /\ pc = "transformed"
    /\ RAW_JSON.books = <<RawRecord(Some(BookA.product_page_url), <<"(", "2", "2">>),
                          RawRecord(NoValue, <<>>),
                          RawRecord(Some(BookA.product_page_url), <<>>)>>
    /\ Len(df_clean.rows) = 1
    /\ df_clean.rows[1].availability = Some(22)

\* the data cell of the last row of rows whose header cell is th
LastCell(rows, th) ==
    LET at == CHOOSE i \in 1..Len(rows) :
                  rows[i].th = th /\ \A j \in (i + 1)..Len(rows) : rows[j].th # th
    IN  rows[at].td

\* C13: detail extraction isolates missing markup per field. When the detail
\* page was fetched, the appended record carries fetched_url, the category of
\* a trail of 3 or more entries (None below 3), the description paragraph (""
\* without one) and the cell of every table row that has both its cells,
\* whatever other element of the page is missing.
C13_MissingMarkupPerField ==
    [][(pc = "detailed" /\ result.ok) =>
          LET soup == result.soup
              record == all_books'[Len(all_books')]
          IN  /\ Len(all_books') = Len(all_books) + 1
              /\ "fetched_url" \in DOMAIN record /\ record.fetched_url = result.final_url
              /\ "category" \in DOMAIN record
              /\ record.category = IF Len(soup.crumbs) >= 3 THEN soup.crumbs[3] ELSE None
              /\ "description" \in DOMAIN record
              /\ record.description = IF soup.desc = Missing THEN "" ELSE soup.desc
              /\ \A i \in 1..Len(soup.rows) :
                     (soup.has_table /\ soup.rows[i].th # Missing /\ soup.rows[i].td # Missing) =>
                         /\ soup.rows[i].th \in DOMAIN record
                         /\ LastCell(soup.rows, soup.rows[i].th) # Missing =>
                                record[soup.rows[i].th] = LastCell(soup.rows, soup.rows[i].th)
    ]_vars

\* a step that ends the processing of an item entry
ItemDone ==
    /\ pc \in {"items", "detailed"}
    /\ articles # <<>>
    /\ articles' = Tail(articles)
    /\ pc' # "interrupted"

\* C14: checkpoint cadence. When an item entry has been processed and the
\* Accumulator's length is a multiple of CheckpointEvery, a save of the whole
\* Accumulator begins, and no save begins otherwise; so at every item boundary
\* where the checkpoint file holds a loaded or saved list, that list is a
\* prefix of the Accumulator, fewer than CheckpointEvery records short, with
\* no multiple of CheckpointEvery between the two lengths.
C14_CheckpointCadence ==
    /\ [][ItemDone =>
             IF Len(all_books') % CheckpointEvery = 0
             THEN pc' = "save_open" /\ ret' = "items" /\ saveArg' = all_books'
             ELSE pc' = "items"]_vars
    /\ []((pc = "items" /\ RAW_JSON.kind = "json") =>
             /\ IsPrefix(RAW_JSON.books, all_books)
             /\ Len(all_books) - Len(RAW_JSON.books) < CheckpointEvery
             /\ Len(all_books) \div CheckpointEvery = Len(RAW_JSON.books) \div CheckpointEvery)

\* a checkpoint was saved at 20 records and one more record was appended since
C14_Witness ==
    /\ pc = "items"
    /\ Len(startJson.books) = CheckpointEvery - 1
    /\ Len(RAW_JSON.books) = CheckpointEvery
    /\ Len(all_books) = CheckpointEvery + 1

\* 2 to the power n
RECURSIVE Pow2(_)
Pow2(n) == IF n = 0 THEN 1 ELSE 2 * Pow2(n - 1)

\* the failed attempts made so far that another attempt follows
FailedAndRetried ==
    IF result.ok THEN gets - 1 ELSE Min(gets, max_retries - 1)

\* C15: backoff schedule. Within one fetch call there is one wait for each
\* failed attempt that another attempt follows, none after a success and none
\* after the last attempt of an exhausted budget, and the wait after failed
\* attempt k is at least backoff_factor * 2^(k-1) and less than
\* backoff_factor * 2^k seconds (durations are in units of 1/JitterSteps second).
C15_BackoffSchedule ==
    /\ attempt \in 1..(max_retries + 1)
    /\ Len(sleeps) = FailedAndRetried
    /\ \A k \in 1..Len(sleeps) :
           /\ sleeps[k] >= JitterSteps * backoff_factor * Pow2(k - 1)
           /\ sleeps[k] < JitterSteps * backoff_factor * Pow2(k)

\* a step that calls get_soup_and_url
FetchBegins == pc # "fetch" /\ pc' = "fetch"

\* C16: pagination is bounded and ordered, and the crawl terminates. The
\* listing pages requested are 1, 2, 3, ... in this order, on a fresh and on a
\* resumed run, and at most MaxPages of them; a listing page is requested only
\* when every entry of the page before it has been processed; a fetch begins
\* only when no other call is running or waiting to be used; and every run
\* reaches Finalize.
C16_PaginationTerminates ==
    /\ [](/\ Len(listed) <= MaxPages
          /\ \A i \in 1..Len(listed) : listed[i] = i)
    /\ [][listed' # listed =>
             /\ pc = "loop"
             /\ listed' = Append(listed, page)
             /\ articles = <<>>
             /\ item = EmptyDict]_vars
    /\ [][FetchBegins =>
             /\ url = NoUrl
             /\ caller = "none"
             /\ result = NoResult]_vars
    /\ <>Finalizing

\* a resumed run requested pages 1 and 2, processed their entries and finished
C16_Witness ==
    /\ pc = "done"
    /\ startJson.kind = "json"
    /\ startJson.books # <<>>
    /\ listed = <<1, 2>>
    /\ Len(all_books) = Len(startJson.books) + 2

\* C17: retry budgets are independent per fetch call. Every call of
\* get_soup_and_url, for a listing page or a detail page, begins at attempt 1
\* with delay backoff_factor and no request made; while it runs the delay is
\* backoff_factor doubled once per failed attempt, another attempt is possible
\* as long as fewer than max_retries were made, and it returns a failure only
\* after max_retries requests. A detail fetch that returns a failure leaves
\* page as it is and the record is appended, the run going on with the next
\* entry or a periodic save, never the final one.
C17_BudgetPerFetch ==
    /\ [][FetchBegins =>
             /\ attempt' = 1
             /\ delay' = backoff_factor
             /\ gets' = 0]_vars
    /\ [](pc = "fetch" =>
             /\ attempt \in 1..(max_retries + 1)
             /\ gets = attempt - 1
             /\ delay = backoff_factor * Pow2(attempt - 1)
             /\ (gets < max_retries => ENABLED AttemptFail))
    /\ [][(pc = "fetch" /\ pc' \in {"listed", "detailed"} /\ ~result'.ok) =>
             gets = max_retries]_vars
    /\ [][(pc = "detailed" /\ ~result.ok /\ pc' # "interrupted") =>
             /\ page' = page
             /\ Len(all_books') = Len(all_books) + 1
             /\ pc' \in {"items", "save_open"}
             /\ ret' # "final"]_vars

\* on a fresh run the fetch of listing page 2 begins with a whole budget after
\* the detail fetch of the latest entry of page 1 brought nothing
C17_Witness ==
    /\ pc = "fetch"
    /\ caller = "list"
    /\ listed = <<1, 2>>
    /\ attempt = 1
    /\ delay = backoff_factor
    /\ startJson = Absent
    /\ all_books # <<>>
    /\ "fetched_url" \notin DOMAIN all_books[Len(all_books)]

\* the checkpoint file holds a list that this run has loaded or written
CheckpointKnown ==
    /\ RAW_JSON.kind = "json"
    /\ pc # "start"
    /\ cut # "start"

\* C18: whenever the checkpoint file was loaded at startup or has been written
\* during the run, the list it holds is a prefix of the Accumulator, and it
\* is the list of the startup load or the argument of a save (the latest one
\* or, while that one is under way, the file as it stood before it); the step
\* that completes a save leaves in the file the whole Accumulator of that
\* moment, and never a list shorter than the one the run knew there.
C18_CheckpointIsPrefix ==
    /\ [](CheckpointKnown =>
             /\ IsPrefix(RAW_JSON.books, all_books)
             /\ RAW_JSON \in {startJson, jsonBefore, JsonFile(saveArg)})
    /\ [][(pc = "save_replace" /\ pc' \in {"items", "csv"}) =>
             /\ RAW_JSON' = JsonFile(all_books)
             /\ all_books' = all_books
             /\ saveArg = all_books
             /\ CheckpointKnown =>
                    /\ Len(RAW_JSON'.books) >= Len(RAW_JSON.books)
                    /\ IsPrefix(RAW_JSON.books, RAW_JSON'.books)]_vars
    /\ [][RAW_JSON' # RAW_JSON => pc = "save_replace"]_vars

\* the final save of a resumed run is under way: the file holds the 20
\* records of the periodic save, the Accumulator one more
C18_Witness ==
    /\ pc = "save_dump"
    /\ ret = "final"
    /\ Len(startJson.books) = CheckpointEvery - 1
    /\ Len(RAW_JSON.books) = CheckpointEvery
    /\ Len(all_books) = CheckpointEvery + 1

====
